---- MODULE Spec2Model ----
(***************************************************************************)
(* EchoMind recording client (src/unnamed/part_000): the audio-capture     *)
(* and turn-management state machine.  One action per event handler or     *)
(* promise continuation; a handler runs to its next await atomically, as   *)
(* the browser's single-threaded event loop runs it.                       *)
(***************************************************************************)
EXTENDS Integers, Sequences, FiniteSets, TLC

\* ------------------------------------------------------------- bounds
MaxStreams == 2   \* microphone grants explored in one run
MaxPending == 2   \* getUserMedia requests pending at once
MaxChunks  == 1   \* timesliced chunks per recorder before its final flush
MaxTurns   == 2   \* reasoning requests issued in one run
MaxWork    == 3   \* grants plus reasoning requests in one run
MaxTimers  == 1   \* info-notice expiry timers pending at once
MaxLen     == 1   \* length of a typed or transcribed text

VARIABLES
    userInput,       \* userInput.value
    chat,            \* message elements of chatContainer, in DOM order
    placeholder,     \* the "no messages yet" element is still in chatContainer
    typing,          \* typing-indicator elements displayed (one per turn id)
    turns,           \* fetch('/process_input') calls in flight
    requestsIssued,  \* number of fetch('/process_input') calls made so far
    playPending,     \* audioPlayer.play() promises not yet settled
    voiceStatus,     \* elements with id voice-status in the DOM, in order
    infoTimers,      \* pending 5000 ms expiry timers of info notices
    autoTimers,      \* pending 1000 ms auto-submit timers (each tagged with
                     \* the transcript whose arrival set it)
    mediaRecorder,   \* let mediaRecorder (0 is null, else a recorder id)
    audioChunks,     \* let audioChunks
    isRecording,     \* let isRecording
    audioStream,     \* let audioStream (0 is null, else a stream id)
    gumPending,      \* getUserMedia promises not yet settled
    streamState,     \* per granted stream: are its tracks live
    recState,        \* per MediaRecorder object: its recording phase
    delivered,       \* per recorder: every chunk its dataavailable delivered
    transcribing,    \* fetch('/transcribe_audio') calls in flight
    submitting,      \* the processUserInput call being executed statement by
                     \* statement (SpecOrder only), else NoSubmit
    isListening,     \* let isListening (src/static/js/script.js)
    recognizing      \* phase of the webkitSpeechRecognition session
                     \* (src/static/js/script.js)

turnVars    == <<userInput, chat, placeholder, typing, turns, requestsIssued, playPending>>
statusVars  == <<voiceStatus, infoTimers>>
captureVars == <<mediaRecorder, audioChunks, isRecording, audioStream, gumPending,
                 streamState, recState, delivered, transcribing>>
auxVars     == <<submitting, isListening, recognizing>>
vars == <<turnVars, statusVars, autoTimers, captureVars, auxVars>>

\* ------------------------------------------------------------- values
NoStream   == 0
NoRecorder == 0
NoSubmit   == [pc |-> "none", text |-> <<>>, via |-> "none"]
Ids        == 1..MaxStreams   \* recorder i is the one constructed on stream i

Chars   == {"a", " "}
Strings == UNION {[1..n -> Chars] : n \in 0..MaxLen}

RECURSIVE TrimStart(_)
TrimStart(s) ==
    IF s = <<>> THEN s
    ELSE IF Head(s) = " " THEN TrimStart(Tail(s)) ELSE s

RECURSIVE TrimEnd(_)
TrimEnd(s) ==
    IF s = <<>> THEN s
    ELSE IF s[Len(s)] = " " THEN TrimEnd(SubSeq(s, 1, Len(s) - 1)) ELSE s

\* a trim that removes nothing
TrimNothing(s) == s

\* String.prototype.trim
Trim(s) == TrimEnd(TrimStart(s))

\* new Blob(parts): the bytes of the parts, in order
RECURSIVE Blob(_)
Blob(parts) ==
    IF parts = <<>> THEN <<>> ELSE Head(parts) \o Blob(Tail(parts))

\* The k-th chunk recorder r delivers: event.data, of `size` bytes
Chunk(r, k, size) == IF size = 0 THEN <<>> ELSE << <<r, k>> >>

ResponseText == <<"response">>
TurnFailures == {"network", "status", "errfield"}
TurnOutcomes == TurnFailures \cup {"audio", "noaudio"}
TxFailures   == {"network", "status", "errfield"}
TxKinds      == TxFailures \cup {"ok"}
GrantOutcomes == {"ok", "ctorThrows", "startThrows"}
GumErrors    == {"NotAllowedError", "NotFoundError", "other"}

\* error.message of a failed fetch / response, per cause
FailureDetail(cause) ==
    CASE cause = "network"  -> "Failed to fetch"
      [] cause = "status"   -> "Server error: 500"
      [] cause = "errfield" -> "error field of the response"

\* `Error: ${error.message}` of processRecordedAudio's catch
TxErrorMsg(cause) ==
    CASE cause = "network"  -> "Error: Failed to fetch"
      [] cause = "status"   -> "Error: Server error: 500"
      [] cause = "errfield" -> "Error: error field of the response"

StartErrorMsg(name) ==
    CASE name = "NotAllowedError" -> "Failed to start recording. Microphone permission denied."
      [] name = "NotFoundError"   -> "Failed to start recording. No microphone found."
      [] OTHER                    -> "Failed to start recording. Please try again."

Notice(msg, type) == [type |-> type, msg |-> msg]

\* streams getUserMedia has granted so far
Granted == Cardinality({s \in Ids : streamState[s] # "none"})

\* the run may still make one more grant or reasoning request
WorkLeft == Granted + requestsIssued < MaxWork

\* ------------------------------------------------------------- status
\* StatusAfter without the removal of the existing element
StatusAfterKeepsOld(vs, msg, type) ==
    vs \o <<Notice(msg, type)>>

\* updateStatusIndicator's DOM effect on the voice-status elements vs:
\* getElementById finds the first one and removes it, the new one is inserted.
StatusAfter(vs, msg, type) ==
    (IF vs = <<>> THEN vs ELSE Tail(vs)) \o <<Notice(msg, type)>>

\* updateStatusIndicator(msg, type), called once by the handler
UpdateStatusIndicator(msg, type) ==
    /\ type = "info" => infoTimers < MaxTimers
    /\ voiceStatus' = StatusAfter(voiceStatus, msg, type)
    /\ infoTimers' = IF type = "info" THEN infoTimers + 1 ELSE infoTimers

\* the setTimeout callback of an info notice: removes statusIndicator, the
\* most recently created notice, if it is still attached
StatusExpiry ==
    /\ infoTimers > 0
    /\ infoTimers' = infoTimers - 1
    /\ voiceStatus' = IF voiceStatus = <<>> THEN voiceStatus
                      ELSE SubSeq(voiceStatus, 1, Len(voiceStatus) - 1)
    /\ UNCHANGED <<turnVars, autoTimers, captureVars>>
    /\ UNCHANGED auxVars

\* ------------------------------------------------------------- turns
UserEntry(text) == [sender |-> "user", text |-> text]
AiEntry(text)   == [sender |-> "ai", text |-> text]
ErrorEntry(detail) == AiEntry(<<"Error: ", detail>>)

\* addMessageToChat overwriting the last message of the log
AddMessageToChatOverLast(log, entry) ==
    IF log = <<>> THEN <<entry>> ELSE [log EXCEPT ![Len(log)] = entry]

\* addMessageToChat
AddMessageToChat(log, entry) == Append(log, entry)

\* processUserInput(text) up to its await fetch; `via` records which trigger
\* called it
ProcessUserInput(text, via) ==
    IF Trim(text) = <<>>
    THEN UNCHANGED <<chat, placeholder, typing, turns, requestsIssued, voiceStatus>>
    ELSE /\ requestsIssued < MaxTurns /\ WorkLeft
         /\ chat' = AddMessageToChat(chat, UserEntry(Trim(text)))
         /\ placeholder' = FALSE
         /\ voiceStatus' = IF voiceStatus = <<>> THEN voiceStatus ELSE Tail(voiceStatus)
         /\ typing' = typing \cup {requestsIssued + 1}
         /\ turns' = turns \cup {[id |-> requestsIssued + 1, text |-> Trim(text), via |-> via]}
         /\ requestsIssued' = requestsIssued + 1

\* the user edits the input field
TypeText(v) ==
    /\ v # userInput
    /\ userInput' = v
    /\ UNCHANGED <<chat, placeholder, typing, turns, requestsIssued, playPending,
                   statusVars, autoTimers, captureVars>>
    /\ UNCHANGED auxVars

\* SendClick without the clearing of the field
SendClickKeepsText ==
    /\ Trim(userInput) # <<>>
    /\ ProcessUserInput(Trim(userInput), "send")
    /\ userInput' = userInput
    /\ UNCHANGED <<playPending, infoTimers, autoTimers, captureVars>>
    /\ UNCHANGED auxVars

\* sendBtn click
SendClick ==
    /\ Trim(userInput) # <<>>
    /\ ProcessUserInput(Trim(userInput), "send")
    /\ userInput' = <<>>
    /\ UNCHANGED <<playPending, infoTimers, autoTimers, captureVars>>
    /\ UNCHANGED auxVars

\* userInput keypress Enter without shift
EnterKey ==
    /\ Trim(userInput) # <<>>
    /\ ProcessUserInput(Trim(userInput), "enter")
    /\ userInput' = <<>>
    /\ UNCHANGED <<playPending, infoTimers, autoTimers, captureVars>>
    /\ UNCHANGED auxVars

\* AutoSubmitTimer submitting the transcript it was set for instead of
\* reading the field again
AutoSubmitTimerFromTranscript ==
    /\ autoTimers # <<>>
    /\ autoTimers' = Tail(autoTimers)
    /\ ProcessUserInput(Head(autoTimers), "timer")
    /\ userInput' = <<>>
    /\ UNCHANGED <<playPending, infoTimers, captureVars>>
    /\ UNCHANGED auxVars

\* the setTimeout callback set after a transcription
AutoSubmitTimer ==
    /\ autoTimers # <<>>
    /\ autoTimers' = Tail(autoTimers)
    /\ IF Trim(userInput) # <<>>
       THEN /\ ProcessUserInput(Trim(userInput), "timer")
            /\ userInput' = <<>>
       ELSE UNCHANGED <<userInput, chat, placeholder, typing, turns, requestsIssued,
                        voiceStatus>>
    /\ UNCHANGED <<playPending, infoTimers, captureVars>>
    /\ UNCHANGED auxVars

\* TurnFailed with the typing indicator left in place
TurnFailedKeepsIndicator(t, cause) ==
    /\ typing' = typing
    /\ chat' = AddMessageToChat(chat, ErrorEntry(FailureDetail(cause)))
    /\ placeholder' = FALSE
    /\ UpdateStatusIndicator(FailureDetail(cause), "error")
    /\ UNCHANGED playPending

\* the continuation of processUserInput after fetch settles, failing
TurnFailed(t, cause) ==
    /\ typing' = typing \ {t.id}
    /\ chat' = AddMessageToChat(chat, ErrorEntry(FailureDetail(cause)))
    /\ placeholder' = FALSE
    /\ UpdateStatusIndicator(FailureDetail(cause), "error")
    /\ UNCHANGED playPending

\* TurnSucceeded removing the first element with id 'typing-indicator' in the
\* document instead of the one this call created
TurnSucceededRemovesFirst(t, outcome) ==
    /\ typing' = typing \ {CHOOSE i \in typing : \A j \in typing : i <= j}
    /\ chat' = AddMessageToChat(chat, AiEntry(ResponseText))
    /\ placeholder' = FALSE
    /\ IF outcome = "audio"
       THEN /\ playPending' = playPending + 1
            /\ UNCHANGED statusVars
       ELSE /\ UpdateStatusIndicator("Response received (no audio)", "info")
            /\ UNCHANGED playPending

\* the continuation of processUserInput after fetch settles, succeeding
TurnSucceeded(t, outcome) ==
    /\ typing' = typing \ {t.id}
    /\ chat' = AddMessageToChat(chat, AiEntry(ResponseText))
    /\ placeholder' = FALSE
    /\ IF outcome = "audio"
       THEN /\ playPending' = playPending + 1
            /\ UNCHANGED statusVars
       ELSE /\ UpdateStatusIndicator("Response received (no audio)", "info")
            /\ UNCHANGED playPending

ProcessResponse(t, outcome) ==
    /\ t \in turns
    /\ turns' = turns \ {t}
    /\ IF outcome \in TurnFailures THEN TurnFailed(t, outcome) ELSE TurnSucceeded(t, outcome)
    /\ UNCHANGED <<userInput, requestsIssued, autoTimers, captureVars>>
    /\ UNCHANGED auxVars

\* audioPlayer.play() settles
PlaySettled(ok) ==
    /\ playPending > 0
    /\ playPending' = playPending - 1
    /\ IF ok THEN UNCHANGED statusVars
       ELSE UpdateStatusIndicator("Audio playback failed.", "error")
    /\ UNCHANGED <<userInput, chat, placeholder, typing, turns, requestsIssued,
                   autoTimers, captureVars>>
    /\ UNCHANGED auxVars

\* ------------------------------------------------------------- capture
\* MediaStreamTrack.stop() on every track of stream s: the stream is released,
\* and a recorder still recording it is inactivated by the browser, which
\* queues its last dataavailable and its stop event
TracksStopped(rs, s) ==
    IF s # NoStream /\ rs[s] = "recording" THEN [rs EXCEPT ![s] = "flushing"] ELSE rs

\* mediaRecorder.stop(): a recording recorder goes inactive and queues its last
\* dataavailable and its stop event; on an inactive recorder it does nothing
RecorderStop(rs, r) ==
    IF rs[r] = "recording" THEN [rs EXCEPT ![r] = "flushing"] ELSE rs

\* stopRecording(), run on recorder phases rs with the notices vs displayed
\* and n expiry timers pending
StopRecording(rs, vs, n) ==
    IF mediaRecorder # NoRecorder /\ isRecording
    THEN /\ n < MaxTimers
         /\ recState' = RecorderStop(rs, mediaRecorder)
         /\ isRecording' = FALSE
         /\ voiceStatus' = StatusAfter(vs, "Processing audio...", "info")
         /\ infoTimers' = n + 1
    ELSE /\ recState' = rs
         /\ isRecording' = isRecording
         /\ voiceStatus' = vs
         /\ infoTimers' = n

\* startRecording() up to its await getUserMedia
StartRecording ==
    /\ gumPending < MaxPending
    /\ UpdateStatusIndicator("Requesting microphone access...", "info")
    /\ gumPending' = gumPending + 1
    /\ UNCHANGED <<recState, isRecording>>

\* toggleVoiceRecording(): voiceBtn click, or the space bar outside a field
ToggleVoiceRecording ==
    /\ IF isRecording
       THEN /\ StopRecording(recState, voiceStatus, infoTimers)
            /\ UNCHANGED gumPending
       ELSE StartRecording
    /\ UNCHANGED <<turnVars, autoTimers, mediaRecorder, audioChunks, audioStream,
                   streamState, delivered, transcribing>>
    /\ UNCHANGED auxVars

\* the continuation of startRecording after getUserMedia resolves with a new
\* stream; new MediaRecorder(...) or mediaRecorder.start() may throw
GumGranted(outcome) ==
    /\ gumPending > 0
    /\ Granted < MaxStreams /\ WorkLeft
    /\ LET s == Granted + 1 IN
       /\ gumPending' = gumPending - 1
       /\ streamState' = [streamState EXCEPT ![s] = "live"]
       /\ audioStream' = s
       /\ CASE outcome = "ok" ->
                 /\ mediaRecorder' = s
                 /\ audioChunks' = <<>>
                 /\ recState' = [recState EXCEPT ![s] = "recording"]
                 /\ isRecording' = TRUE
                 /\ UpdateStatusIndicator("Recording... Speak now!", "listening")
            [] outcome = "ctorThrows" ->
                 /\ UNCHANGED <<mediaRecorder, audioChunks, recState>>
                 /\ isRecording' = FALSE
                 /\ UpdateStatusIndicator(StartErrorMsg("other"), "error")
            [] outcome = "startThrows" ->
                 /\ mediaRecorder' = s
                 /\ audioChunks' = <<>>
                 /\ recState' = [recState EXCEPT ![s] = "inactive"]
                 /\ isRecording' = FALSE
                 /\ UpdateStatusIndicator(StartErrorMsg("other"), "error")
    /\ UNCHANGED <<turnVars, autoTimers, delivered, transcribing>>
    /\ UNCHANGED auxVars

\* the catch of startRecording after getUserMedia rejects
GumRejected(name) ==
    /\ gumPending > 0
    /\ gumPending' = gumPending - 1
    /\ UpdateStatusIndicator(StartErrorMsg(name), "error")
    /\ isRecording' = FALSE
    /\ UNCHANGED <<turnVars, autoTimers, mediaRecorder, audioChunks, audioStream,
                   streamState, recState, delivered, transcribing>>
    /\ UNCHANGED auxVars

\* mediaRecorder.ondataavailable of recorder r: a timesliced chunk while it
\* records, or the last chunk the browser flushes once it was stopped
DataAvailable(r, size) ==
    /\ recState[r] \in {"recording", "flushing"}
    /\ recState[r] = "recording" => Len(delivered[r]) < MaxChunks /\ size > 0
    /\ LET data == Chunk(r, Len(delivered[r]) + 1, size) IN
       /\ delivered' = [delivered EXCEPT ![r] = Append(@, data)]
       /\ audioChunks' = IF Len(data) > 0 THEN Append(audioChunks, data) ELSE audioChunks
    /\ recState' = IF recState[r] = "flushing" THEN [recState EXCEPT ![r] = "stopping"]
                   ELSE recState
    /\ UNCHANGED <<turnVars, statusVars, autoTimers, mediaRecorder, isRecording,
                   audioStream, gumPending, streamState, transcribing>>
    /\ UNCHANGED auxVars

\* mediaRecorder.onerror of recorder r: the browser inactivates the recorder
\* and fires error, then the last dataavailable and stop
RecorderError(r) ==
    /\ recState[r] = "recording"
    /\ StopRecording([recState EXCEPT ![r] = "flushing"],
                     StatusAfter(voiceStatus, "Recording error. Please try again.", "error"),
                     infoTimers)
    /\ UNCHANGED <<turnVars, autoTimers, mediaRecorder, audioChunks, audioStream,
                   gumPending, streamState, delivered, transcribing>>
    /\ UNCHANGED auxVars

\* the tail of mediaRecorder.onstop, after processRecordedAudio returned:
\* stop the tracks of whatever audioStream holds now, on recorder phases rs
ReleaseStream(rs) ==
    /\ streamState' = IF audioStream # NoStream
                      THEN [streamState EXCEPT ![audioStream] = "stopped"]
                      ELSE streamState
    /\ recState' = TracksStopped(rs, audioStream)
    /\ audioStream' = NoStream

\* OnStop without the early return of processRecordedAudio on an empty buffer
OnStopNoEmptyCheck(r) ==
    /\ recState[r] = "stopping"
    /\ UpdateStatusIndicator("Transcribing audio...", "info")
    /\ transcribing' = transcribing \cup {[rec |-> r, payload |-> Blob(audioChunks)]}
    /\ recState' = [recState EXCEPT ![r] = "inactive"]
    /\ UNCHANGED <<streamState, audioStream>>
    /\ UNCHANGED <<turnVars, autoTimers, mediaRecorder, audioChunks, isRecording,
                   gumPending, delivered>>
    /\ UNCHANGED auxVars

\* mediaRecorder.onstop of recorder r, up to the await fetch of
\* processRecordedAudio (or to its end when nothing was recorded)
OnStop(r) ==
    /\ recState[r] = "stopping"
    /\ IF audioChunks = <<>>
       THEN /\ UpdateStatusIndicator("No audio recorded. Please try again.", "error")
            /\ ReleaseStream([recState EXCEPT ![r] = "inactive"])
            /\ UNCHANGED transcribing
       ELSE /\ UpdateStatusIndicator("Transcribing audio...", "info")
            /\ transcribing' = transcribing \cup {[rec |-> r, payload |-> Blob(audioChunks)]}
            /\ recState' = [recState EXCEPT ![r] = "inactive"]
            /\ UNCHANGED <<streamState, audioStream>>
    /\ UNCHANGED <<turnVars, autoTimers, mediaRecorder, audioChunks, isRecording,
                   gumPending, delivered>>
    /\ UNCHANGED auxVars

\* Transcribed with the transcript not written to the input field
TranscribedNoFill(text) ==
    IF Trim(text) # <<>>
    THEN /\ userInput' = userInput
         /\ UpdateStatusIndicator("Transcription complete! Click send or record again.", "info")
         /\ autoTimers' = Append(autoTimers, Trim(text))
    ELSE /\ UpdateStatusIndicator("No speech detected. Please try again.", "error")
         /\ UNCHANGED <<userInput, autoTimers>>

\* processRecordedAudio after the fetch settled with a transcript
Transcribed(text) ==
    IF Trim(text) # <<>>
    THEN /\ userInput' = Trim(text)
         /\ UpdateStatusIndicator("Transcription complete! Click send or record again.", "info")
         /\ autoTimers' = Append(autoTimers, Trim(text))
    ELSE /\ UpdateStatusIndicator("No speech detected. Please try again.", "error")
         /\ UNCHANGED <<userInput, autoTimers>>

\* TranscriptionFailed that schedules the auto-submit all the same
TranscriptionFailedSubmits(cause) ==
    /\ UpdateStatusIndicator(TxErrorMsg(cause), "error")
    /\ autoTimers' = Append(autoTimers, userInput)
    /\ UNCHANGED userInput

\* processRecordedAudio after the fetch failed: its catch
TranscriptionFailed(cause) ==
    /\ UpdateStatusIndicator(TxErrorMsg(cause), "error")
    /\ UNCHANGED <<userInput, autoTimers>>

\* the continuation of processRecordedAudio after fetch('/transcribe_audio')
\* settles (with data.text = text when it succeeds), its finally, and the
\* tail of onstop that awaited it
TranscribeResponse(t, kind, text) ==
    /\ t \in transcribing
    /\ kind # "ok" => text = <<>>
    /\ transcribing' = transcribing \ {t}
    /\ IF kind = "ok" THEN Transcribed(text) ELSE TranscriptionFailed(kind)
    /\ audioChunks' = <<>>
    /\ ReleaseStream(recState)
    /\ UNCHANGED <<chat, placeholder, typing, turns, requestsIssued, playPending,
                   mediaRecorder, isRecording, gumPending, delivered>>
    /\ UNCHANGED auxVars

\* ------------------------------------------------------------- machine
Init ==
    /\ userInput = <<>>
    /\ chat = <<>>
    /\ placeholder = TRUE
    /\ typing = {}
    /\ turns = {}
    /\ requestsIssued = 0
    /\ playPending = 0
    /\ voiceStatus = <<>>
    /\ infoTimers = 0
    /\ autoTimers = <<>>
    /\ mediaRecorder = NoRecorder
    /\ audioChunks = <<>>
    /\ isRecording = FALSE
    /\ audioStream = NoStream
    /\ gumPending = 0
    /\ streamState = [s \in Ids |-> "none"]
    /\ recState = [r \in Ids |-> "none"]
    /\ delivered = [r \in Ids |-> <<>>]
    /\ transcribing = {}
    /\ submitting = NoSubmit
    /\ isListening = FALSE
    /\ recognizing = "off"

Next ==
    \/ \E v \in Strings : TypeText(v)
    \/ SendClick
    \/ EnterKey
    \/ AutoSubmitTimer
    \/ \E t \in turns, o \in TurnOutcomes : ProcessResponse(t, o)
    \/ \E ok \in BOOLEAN : PlaySettled(ok)
    \/ StatusExpiry
    \/ ToggleVoiceRecording
    \/ \E o \in GrantOutcomes : GumGranted(o)
    \/ \E e \in GumErrors : GumRejected(e)
    \/ \E r \in Ids, size \in {0, 1} : DataAvailable(r, size)
    \/ \E r \in Ids : RecorderError(r)
    \/ \E r \in Ids : OnStop(r)
    \/ \E t \in transcribing, k \in TxKinds, text \in Strings : TranscribeResponse(t, k, text)

Spec == Init /\ [][Next]_vars

\* ------------------------------------------------------------- one submission, statement by statement
\* The handlers above run a submission as one step. Below, the same code from
\* a trigger up to the await of fetch is taken one statement at a time;
\* submitting.pc is the statement reached. No other handler runs meanwhile
\* (run to completion), so every other action waits for Quiet.
Quiet == submitting = NoSubmit

Triggers == {"send", "enter", "timer"}

\* the turn id the submission under way will use
NextId == requestsIssued + 1

\* a trigger reads and trims the field, calls processUserInput, which passes
\* its emptiness check and appends the user entry; the timer callback on a
\* blank field just returns
OrdBegin(via) ==
    /\ Quiet
    /\ IF via = "timer"
       THEN autoTimers # <<>> /\ autoTimers' = Tail(autoTimers)
       ELSE Trim(userInput) # <<>> /\ UNCHANGED autoTimers
    /\ IF Trim(userInput) # <<>>
       THEN /\ requestsIssued < MaxTurns /\ WorkLeft
            /\ chat' = AddMessageToChat(chat, UserEntry(Trim(userInput)))
            /\ placeholder' = FALSE
            /\ submitting' = [pc |-> "appended", text |-> Trim(userInput), via |-> via]
       ELSE UNCHANGED <<chat, placeholder, submitting>>
    /\ UNCHANGED <<userInput, typing, turns, requestsIssued, playPending, statusVars,
                   captureVars, isListening, recognizing>>

\* userInput.value = ''
OrdClearInput ==
    /\ submitting.pc = "appended"
    /\ userInput' = <<>>
    /\ submitting' = [submitting EXCEPT !.pc = "inputCleared"]
    /\ UNCHANGED <<chat, placeholder, typing, turns, requestsIssued, playPending,
                   statusVars, autoTimers, captureVars, isListening, recognizing>>

\* const status = getElementById('voice-status'); if (status) status.remove()
OrdRemoveStatus ==
    /\ submitting.pc = "inputCleared"
    /\ voiceStatus' = IF voiceStatus = <<>> THEN voiceStatus ELSE Tail(voiceStatus)
    /\ submitting' = [submitting EXCEPT !.pc = "noticeCleared"]
    /\ UNCHANGED <<turnVars, infoTimers, autoTimers, captureVars, isListening, recognizing>>

\* const typingIndicator = showTypingIndicator()
OrdShowTyping ==
    /\ submitting.pc = "noticeCleared"
    /\ typing' = typing \cup {NextId}
    /\ submitting' = [submitting EXCEPT !.pc = "indicated"]
    /\ UNCHANGED <<userInput, chat, placeholder, turns, requestsIssued, playPending,
                   statusVars, autoTimers, captureVars, isListening, recognizing>>

\* OrdFetch issuing the request right after the entry was appended
OrdFetchFirst ==
    /\ submitting.pc = "appended"
    /\ turns' = turns \cup {[id |-> NextId, text |-> submitting.text, via |-> submitting.via]}
    /\ requestsIssued' = NextId
    /\ submitting' = [submitting EXCEPT !.pc = "requested"]
    /\ UNCHANGED <<userInput, chat, placeholder, typing, playPending,
                   statusVars, autoTimers, captureVars, isListening, recognizing>>

\* fetch('/process_input', ...): the request leaves, processUserInput awaits
OrdFetch ==
    /\ submitting.pc = "indicated"
    /\ turns' = turns \cup {[id |-> NextId, text |-> submitting.text, via |-> submitting.via]}
    /\ requestsIssued' = NextId
    /\ submitting' = [submitting EXCEPT !.pc = "requested"]
    /\ UNCHANGED <<userInput, chat, placeholder, typing, playPending,
                   statusVars, autoTimers, captureVars, isListening, recognizing>>

\* back in the trigger: userInput.value = '' and the handler returns
OrdReturn ==
    /\ submitting.pc = "requested"
    /\ userInput' = <<>>
    /\ submitting' = NoSubmit
    /\ UNCHANGED <<chat, placeholder, typing, turns, requestsIssued, playPending,
                   statusVars, autoTimers, captureVars, isListening, recognizing>>

NextOrder ==
    \/ \E via \in Triggers : OrdBegin(via)
    \/ OrdClearInput
    \/ OrdRemoveStatus
    \/ OrdShowTyping
    \/ OrdFetch
    \/ OrdReturn
    \/ Quiet /\ \E v \in Strings : TypeText(v)
    \/ Quiet /\ \E t \in turns, o \in TurnOutcomes : ProcessResponse(t, o)
    \/ Quiet /\ \E ok \in BOOLEAN : PlaySettled(ok)
    \/ Quiet /\ StatusExpiry
    \/ Quiet /\ ToggleVoiceRecording
    \/ Quiet /\ \E o \in GrantOutcomes : GumGranted(o)
    \/ Quiet /\ \E e \in GumErrors : GumRejected(e)
    \/ Quiet /\ \E r \in Ids, size \in {0, 1} : DataAvailable(r, size)
    \/ Quiet /\ \E r \in Ids : RecorderError(r)
    \/ Quiet /\ \E r \in Ids : OnStop(r)
    \/ Quiet /\ \E t \in transcribing, k \in TxKinds, text \in Strings :
                    TranscribeResponse(t, k, text)

SpecOrder == Init /\ [][NextOrder]_vars

\* ------------------------------------------------------------- the Web Speech client
\* src/static/js/script.js: the same page driven by webkitSpeechRecognition.
\* It shares the input field, the chat log, the typing indicators and the
\* requests in flight with the model above and has no status notices, no
\* recorder and no timers. recognizing is the phase of the recognition
\* session: "off", "on" (started), "stopping" (stop() was called) or "done"
\* (its result or error was delivered, its end event is still to come).
WebSorry == AiEntry(<<"Sorry, I encountered an error. Please try again.">>)

\* processUserInput(text) of script.js up to its await fetch: no trimming, no
\* emptiness check, and the input field is left alone
WebProcessUserInput(text, via) ==
    /\ requestsIssued < MaxTurns
    /\ chat' = AddMessageToChat(chat, UserEntry(text))
    /\ typing' = typing \cup {requestsIssued + 1}
    /\ turns' = turns \cup {[id |-> requestsIssued + 1, text |-> text, via |-> via]}
    /\ requestsIssued' = requestsIssued + 1

\* sendBtn click
WebSendClick ==
    /\ Trim(userInput) # <<>>
    /\ WebProcessUserInput(Trim(userInput), "send")
    /\ userInput' = <<>>
    /\ UNCHANGED <<placeholder, playPending, statusVars, autoTimers, captureVars,
                   submitting, isListening, recognizing>>

\* userInput keypress Enter without shift
WebEnterKey ==
    /\ Trim(userInput) # <<>>
    /\ WebProcessUserInput(Trim(userInput), "enter")
    /\ userInput' = <<>>
    /\ UNCHANGED <<placeholder, playPending, statusVars, autoTimers, captureVars,
                   submitting, isListening, recognizing>>

\* toggleVoiceRecognition(): stop() when listening; else start(), which throws
\* InvalidStateError when the session has not ended yet
ToggleVoiceRecognition ==
    /\ IF isListening
       THEN /\ recognizing' = IF recognizing = "on" THEN "stopping" ELSE recognizing
            /\ UNCHANGED isListening
       ELSE IF recognizing = "off"
            THEN recognizing' = "on" /\ isListening' = TRUE
            ELSE UNCHANGED <<recognizing, isListening>>
    /\ UNCHANGED <<turnVars, statusVars, autoTimers, captureVars, submitting>>

\* recognition.onresult with the final transcript
RecognitionResult(transcript) ==
    /\ recognizing \in {"on", "stopping"}
    /\ transcript # <<>>
    /\ userInput' = transcript
    /\ WebProcessUserInput(transcript, "speech")
    /\ recognizing' = "done"
    /\ UNCHANGED <<placeholder, playPending, statusVars, autoTimers, captureVars,
                   submitting, isListening>>

\* recognition.onerror
RecognitionError ==
    /\ recognizing \in {"on", "stopping"}
    /\ isListening' = FALSE
    /\ recognizing' = "done"
    /\ UNCHANGED <<turnVars, statusVars, autoTimers, captureVars, submitting>>

\* recognition.onend
RecognitionEnd ==
    /\ recognizing # "off"
    /\ isListening' = FALSE
    /\ recognizing' = "off"
    /\ UNCHANGED <<turnVars, statusVars, autoTimers, captureVars, submitting>>

\* the continuation of script.js's processUserInput after fetch settles
WebProcessResponse(t, outcome) ==
    /\ t \in turns
    /\ turns' = turns \ {t}
    /\ typing' = typing \ {t.id}
    /\ chat' = AddMessageToChat(chat, IF outcome \in TurnFailures THEN WebSorry
                                      ELSE AiEntry(ResponseText))
    /\ playPending' = IF outcome = "audio" THEN playPending + 1 ELSE playPending
    /\ UNCHANGED <<userInput, placeholder, requestsIssued, statusVars, autoTimers,
                   captureVars, auxVars>>

\* audioPlayer.play() settles; a rejection is only logged
WebPlaySettled ==
    /\ playPending > 0
    /\ playPending' = playPending - 1
    /\ UNCHANGED <<userInput, chat, placeholder, typing, turns, requestsIssued,
                   statusVars, autoTimers, captureVars, auxVars>>

NextWeb ==
    \/ \E v \in Strings : TypeText(v)
    \/ WebSendClick
    \/ WebEnterKey
    \/ ToggleVoiceRecognition
    \/ \E tr \in Strings : RecognitionResult(tr)
    \/ RecognitionError
    \/ RecognitionEnd
    \/ \E t \in turns, o \in TurnOutcomes : WebProcessResponse(t, o)
    \/ WebPlaySettled

SpecWeb == Init /\ [][NextWeb]_vars

\* ------------------------------------------------------------- scheduling
\* What the event loop and the environment owe the program: a pending
\* getUserMedia promise settles, a stopped recorder's queued dataavailable and
\* stop events are dispatched, a transcription fetch settles, a timer that was
\* set fires, and the user stops a recording the button shows as running.
GumSettles ==
    \/ \E o \in GrantOutcomes : GumGranted(o)
    \/ \E e \in GumErrors : GumRejected(e)

FlushDispatched ==
    \E r \in Ids, size \in {0, 1} : recState[r] = "flushing" /\ DataAvailable(r, size)

StopDispatched == \E r \in Ids : OnStop(r)

TranscribeSettles ==
    \E t \in transcribing, k \in TxKinds, text \in Strings : TranscribeResponse(t, k, text)

UserStops == isRecording /\ ToggleVoiceRecording

SpecLive ==
    /\ Spec
    /\ WF_vars(GumSettles)
    /\ WF_vars(FlushDispatched)
    /\ WF_vars(StopDispatched)
    /\ WF_vars(TranscribeSettles)
    /\ WF_vars(StatusExpiry)
    /\ WF_vars(UserStops)

\* ------------------------------------------------------------- controller states
\* a recorder whose recording has not been handed to onstop yet
Active(r) == recState[r] \in {"recording", "flushing", "stopping"}

Requesting == gumPending > 0
Processing == transcribing # {}

\* Idle: no request pending, not recording, nothing being processed, and no
\* stop event still to be handled
CaptureIdle ==
    /\ gumPending = 0
    /\ ~isRecording
    /\ transcribing = {}
    /\ \A r \in Ids : ~Active(r)

LiveStreams == {s \in Ids : streamState[s] = "live"}

NoAudioNotice  == Notice("No audio recorded. Please try again.", "error")
NoSpeechNotice == Notice("No speech detected. Please try again.", "error")

\* ------------------------------------------------------------- claims
\* C1: whenever the Capture Controller is Idle, no granted microphone stream is
\* left unreleased.
C1_NoStreamHeldWhenIdle == CaptureIdle => LiveStreams = {}

\* C2: at every instant at most one reasoning request is in flight.
C2_AtMostOneTurnInFlight == Cardinality(turns) <= 1

\* C3: a toggle while the controller is Requesting or Processing is a no-op: it
\* leaves all capture state unchanged.
C3_ToggleIgnoredWhileBusy ==
    [][(ToggleVoiceRecording /\ (Requesting \/ Processing)) => UNCHANGED captureVars]_vars

\* C4: at most one MediaRecorder is active and at most one microphone stream is
\* held at any instant.
C4_SingleRecordingSession ==
    /\ Cardinality({r \in Ids : Active(r)}) <= 1
    /\ Cardinality(LiveStreams) <= 1

\* C5: the payload submitted to the transcription endpoint for a recording is
\* the concatenation of exactly the chunks delivered to that recording, in
\* arrival order.
C5_PayloadIsDeliveredChunks ==
    \A t \in transcribing : t.payload = Blob(delivered[t.rec])

\* C6: while a recording is being processed (its transcription request is in
\* flight) its stream is no longer held.
C6_StreamReleasedWhileProcessing ==
    \A t \in transcribing : streamState[t.rec] # "live"

\* C7 as stated: when the auto-submit timer set for transcript T fires, the
\* conversation shows a user entry T and the timer submitted nothing but T.
C7_TimerSubmitsTranscript ==
    [][AutoSubmitTimer =>
         /\ \E i \in DOMAIN chat' : chat'[i] = UserEntry(Head(autoTimers))
         /\ \A t \in turns' \ turns : t.text = Head(autoTimers)]_vars

\* C7 as amended: a non-empty transcript T is written, trimmed, to the input
\* field at once and one timer is set; when the timer fires it submits as one
\* turn and one user entry the trimmed content the field holds then, and
\* nothing when the field is empty or whitespace-only.
C7_TimerSubmitsField ==
    [][/\ \A t \in transcribing, text \in Strings :
            (TranscribeResponse(t, "ok", text) /\ Trim(text) # <<>>)
                => /\ userInput' = Trim(text)
                   /\ autoTimers' = Append(autoTimers, Trim(text))
                   /\ turns' = turns /\ chat' = chat
       /\ AutoSubmitTimer =>
            IF Trim(userInput) # <<>>
            THEN /\ chat' = Append(chat, [sender |-> "user", text |-> Trim(userInput)])
                 /\ turns' = turns \cup {[id |-> requestsIssued + 1,
                                          text |-> Trim(userInput), via |-> "timer"]}
                 /\ requestsIssued' = requestsIssued + 1
                 /\ userInput' = <<>>
            ELSE /\ chat' = chat /\ turns' = turns
                 /\ requestsIssued' = requestsIssued]_vars

\* a transcript was written to the field and its timer has submitted it
C7_Witness ==
    /\ autoTimers = <<>>
    /\ \E t \in turns : t.via = "timer" /\ chat[Len(chat)] = UserEntry(t.text)
    /\ \E r \in Ids : recState[r] = "inactive" /\ Blob(delivered[r]) # <<>>

C9_TurnFailureSurfacedOnce ==
    [][\A t \in turns, c \in TurnFailures :
         ProcessResponse(t, c)
             => /\ t.id \notin typing'
                /\ typing' = typing \ {t.id}
                /\ Len(chat') = Len(chat) + 1
                /\ SubSeq(chat', 1, Len(chat)) = chat
                /\ chat'[Len(chat')].sender = "ai"
                /\ chat'[Len(chat')].text = <<"Error: ", FailureDetail(c)>>
                /\ voiceStatus' = <<Notice(FailureDetail(c), "error")>>
                /\ turns' = turns \ {t}
                /\ requestsIssued' = requestsIssued]_vars

\* the only turn has failed: error entry after the user entry, error notice,
\* no indicator, one request made
C9_Witness ==
    /\ requestsIssued = 1 /\ turns = {} /\ typing = {}
    /\ Len(chat) = 2 /\ chat[1].sender = "user"
    /\ chat[2] = ErrorEntry(FailureDetail("status"))
    /\ voiceStatus = <<Notice(FailureDetail("status"), "error")>>

C11_AcquisitionFailureEndsIdle ==
    [][\A e \in GumErrors :
         (GumRejected(e) /\ gumPending = 1 /\ transcribing = {})
             => /\ voiceStatus' = <<Notice(StartErrorMsg(e), "error")>>
                /\ CaptureIdle'
                /\ LiveStreams' = {}]_vars

\* C12: a device error raised by the recorder while it records leaves the
\* "Recording error" notice displayed when its handler returns.
C12_DeviceErrorNoticeLive ==
    [][\A r \in Ids :
         RecorderError(r)
             => voiceStatus' = <<Notice("Recording error. Please try again.", "error")>>]_vars

\* C13: in every reachable state at most one status notice is displayed.
C13_AtMostOneNotice == Len(voiceStatus) <= 1

\* a notice that replaced an earlier one, whose expiry timer is still set
C13_Witness ==
    /\ voiceStatus = <<Notice("Recording... Speak now!", "listening")>>
    /\ infoTimers = 1

\* C14: the expiry timer of an informational notice never removes a listening
\* or error notice: when it fires while such a notice is displayed, the notice
\* stays.
C14_ExpirySparesPersistentNotices ==
    [][(StatusExpiry /\ voiceStatus # <<>>
          /\ voiceStatus[Len(voiceStatus)].type \in {"listening", "error"})
        => voiceStatus' = voiceStatus]_vars

\* C15: while isRecording is true, none of the three submission triggers (send
\* button, Enter key, auto-submit timer) appends a chat entry or issues a
\* reasoning request.
C15_NoTurnWhileRecording ==
    [][((SendClick \/ EnterKey \/ AutoSubmitTimer) /\ isRecording)
        => (chat' = chat /\ turns' = turns /\ requestsIssued' = requestsIssued)]_vars

\* C16: each of the three submission triggers leaves the input field empty
\* when its handler returns, before the response arrives; a trigger submits
\* only from a field whose trimmed content is non-empty, so a second send-click
\* or Enter without typing in between dispatches nothing.
C16_FieldClearedOnSubmit ==
    [][(SendClick \/ EnterKey \/ AutoSubmitTimer)
        => /\ requestsIssued' # requestsIssued
              => (userInput' = <<>> /\ Trim(userInput) # <<>> /\ turns' # turns)
           /\ Trim(userInput) = <<>>
              => (chat' = chat /\ turns' = turns /\ requestsIssued' = requestsIssued)]_vars

\* a turn submitted by the auto-submit timer is in flight and the field is empty
C16_Witness ==
    /\ userInput = <<>>
    /\ \E t \in turns : t.via = "timer" /\ t.id \in typing

C18_SubmitSideEffectsInOrder ==
    /\ [](\A t \in turns :
             /\ t.id \in typing
             /\ \E i \in 1..Len(chat) : chat[i] = UserEntry(t.text))
    /\ [][LET appended  == chat # <<>> /\ chat[Len(chat)] = UserEntry(submitting.text)
              requested == \E t \in turns : t.id = NextId
          IN  /\ OrdRemoveStatus => (appended /\ NextId \notin typing /\ ~requested)
              /\ OrdShowTyping   => (appended /\ voiceStatus = <<>> /\ ~requested)
              /\ OrdFetch        => (appended /\ voiceStatus = <<>> /\ NextId \in typing
                                       /\ ~requested)]_vars

\* the auto-submit callback has just issued its request: the notice is gone
\* while the timer of an info notice is still set, the indicator is displayed
C18_Witness ==
    /\ submitting.pc = "requested" /\ submitting.via = "timer"
    /\ chat[Len(chat)] = UserEntry(submitting.text)
    /\ voiceStatus = <<>> /\ infoTimers = 1
    /\ requestsIssued \in typing

\* C19: if every microphone request and every transcription request settles
\* (the fairness of SpecLive) and no recorder stays recording for ever, the
\* controller is Idle again and again: isRecording false, no request pending,
\* nothing being processed.
C19_AlwaysEventuallyIdle ==
    (\A r \in Ids : []<>(recState[r] # "recording"))
        => []<>(gumPending = 0 /\ ~isRecording /\ transcribing = {})

\* C20: in the Web Speech client, every submission (send button, Enter key or
\* speech-recognition result) leaves the input field empty when its handler
\* returns.
C20_WebFieldClearedOnSubmit ==
    [][(WebSendClick \/ WebEnterKey \/ \E tr \in Strings : RecognitionResult(tr))
        => userInput' = <<>>]_vars

\* C21: when the processing of one session completes (its transcription
\* settles, the chunk buffer is reset and onstop releases the stream), a
\* session started later that is still recording or being stopped keeps its
\* stream live and keeps every chunk it has put into the buffer.
C21_SessionOwnsStreamAndChunks ==
    [][\A t \in transcribing, k \in TxKinds, text \in Strings :
         TranscribeResponse(t, k, text)
             => \A s \in Ids :
                  (s > t.rec /\ Active(s))
                      => /\ streamState'[s] = streamState[s]
                         /\ \A i \in 1..Len(audioChunks) :
                              audioChunks[i][1][1] = s
                                  => \E j \in 1..Len(audioChunks') :
                                       audioChunks'[j] = audioChunks[i]]_vars

\* C22: in every reachable state the typing indicators displayed are exactly
\* those of the turns whose reasoning request is in flight, one each: a turn
\* that resolves, in whatever way, removes its own indicator, and none remains
\* when no turn is pending.
C22_IndicatorsMatchTurnsInFlight ==
    /\ typing = {t.id : t \in turns}
    /\ Cardinality(typing) = Cardinality(turns)

\* the second turn resolved before the first: the first one's indicator, and
\* only that one, is still displayed
C22_Witness ==
    /\ requestsIssued = 2
    /\ typing = {1}
    /\ \E t \in turns : t.id = 1
    /\ Len(chat) = 3

\* C23: the chat log only grows at its end and never changes an entry it
\* holds; it has one user entry per accepted turn and one assistant entry per
\* resolved turn; the step that resolves a turn appends exactly one assistant
\* entry (the response text on success, an "Error: ..." entry on failure)
\* behind that turn's user entry; and the placeholder, once removed with the
\* first entry, does not come back.
C23_ChatLogAppendOnly ==
    /\ [](/\ Cardinality({i \in 1..Len(chat) : chat[i].sender = "user"}) = requestsIssued
          /\ Cardinality({i \in 1..Len(chat) : chat[i].sender = "ai"})
                 = requestsIssued - Cardinality(turns)
          /\ placeholder <=> chat = <<>>)
    /\ [][/\ Len(chat') >= Len(chat)
          /\ SubSeq(chat', 1, Len(chat)) = chat
          /\ \A t \in turns, o \in TurnOutcomes :
               ProcessResponse(t, o)
                   => /\ \E i \in 1..Len(chat) : chat[i] = UserEntry(t.text)
                      /\ chat' = Append(chat, IF o \in TurnFailures
                                              THEN ErrorEntry(FailureDetail(o))
                                              ELSE AiEntry(ResponseText))]_vars

\* two turns were accepted and both resolved, one failing: two user entries,
\* then the error entry of one and the response of the other
C23_Witness ==
    /\ Len(chat) = 4 /\ turns = {} /\ ~placeholder
    /\ chat[1].sender = "user" /\ chat[2].sender = "user"
    /\ chat[3] = ErrorEntry(FailureDetail("network"))
    /\ chat[4] = AiEntry(ResponseText)

\* C24: a manual send or Enter taken while an auto-submit timer is pending
\* submits the field's text once, empties the field and leaves the timer
\* pending; and the timer firing on an emptied field is used up without
\* appending an entry, showing an indicator or issuing a request. So a
\* transcript sent by hand during the delay is dispatched once, not twice.
C24_TimerSkipsEmptiedField ==
    [][/\ ((SendClick \/ EnterKey) /\ autoTimers # <<>>)
           => /\ userInput' = <<>>
              /\ autoTimers' = autoTimers
              /\ chat' = Append(chat, UserEntry(Trim(userInput)))
              /\ requestsIssued' = requestsIssued + 1
       /\ (AutoSubmitTimer /\ userInput = <<>>)
           => /\ autoTimers' = Tail(autoTimers)
              /\ UNCHANGED <<userInput, chat, typing, turns, requestsIssued>>]_vars

\* the transcript was sent by hand during the delay: its turn is in flight,
\* the field is empty and the timer is still to fire
C24_Witness ==
    /\ autoTimers # <<>>
    /\ userInput = <<>>
    /\ chat = <<UserEntry(Head(autoTimers))>>
    /\ turns = {[id |-> 1, text |-> Head(autoTimers), via |-> "send"]}

====
